---- MODULE Spec2Model ----
(***************************************************************************)
(* Model of the TikTok client of react-agent-sample:                       *)
(*   - BaseAPIClient._make_request (src/src/clients/base.py), which turns  *)
(*     every outcome of one HTTP call into an APIResponse envelope;        *)
(*   - TikTokClient.get_hashtag_posts_page, which decodes an envelope into *)
(*     one page of videos or None;                                         *)
(*   - TikTokClient.get_hashtag_posts, the bounded accumulation loop;      *)
(*   - TikTokClient.get_hashtag_info, and the connection each client       *)
(*     creates on first use and closes on release;                         *)
(*   - the tools tiktok_hashtag_search and tiktok_hashtag_posts            *)
(*     (src/src/video_researcher/tools/tiktok_tools.py);                   *)
(*   - the tool task_manager and TaskManager.update_tasks_in_state         *)
(*     (src/src/common/task_management/manager.py).                        *)
(* The remote API is the environment: every page call is answered by an    *)
(* arbitrary HTTP outcome drawn from HttpOutcomes.                         *)
(***************************************************************************)
EXTENDS Integers, Sequences, FiniteSets, TLC

\* ------------------------------------------------------------ bounds
\* largest max_pages a caller passes (callers pass -1 .. MaxPagesCap)
MaxPagesCap == 3
\* largest target_count a caller passes
MaxTarget == 100
\* largest number of videos the remote API puts in one page; above the
\* per-call maximum, since nothing in the client stops an over-delivery
MaxPageLen == 21
\* the remote API answers with cursors 1 .. MaxCursor
MaxCursor == 2
\* no fetch is followed beyond MaxCalls page requests; above MaxPagesCap, so
\* that the program never meets it
MaxCalls == 4
\* longest list of items passed to task_manager in one call
MaxItems == 2

\* ------------------------------------------------------------ program constants
\* client.py:96 and client.py:144: "API max is 20"
PER_CALL_MAX == 20
\* client.py:125: target_count: int = 50
DEFAULT_TARGET == 50
\* tiktok_tools.py:91: min(count // 20 + 1, 50)
MAX_TOOL_PAGES == 50

\* ------------------------------------------------------------ values
\* An Optional[T] is None or Some(x): a sequence of at most one element.
None == <<>>
Some(x) == <<x>>
\* a Python string built as prefix + detail (f"Request failed: {str(e)}")
Str(prefix, detail) == [prefix |-> prefix, detail |-> detail]
\* the JSON value null under a key of a mapping
NULL == "null"
\* a key that a JSON mapping does not hold
ABSENT == "absent"

Min(a, b) == IF a <= b THEN a ELSE b
Max(a, b) == IF a >= b THEN a ELSE b

\* ------------------------------------------------------------ the remote API
\* The videos of one page: n records, identified by consecutive ids from
\* first.  Two pages with the same first id hold the same records, and a
\* page may hold ids below those of the page before it.
PageVideos(first, n) == [i \in 1..n |-> first + i - 1]

\* the inner "data" object of a /challenge/posts body (HashtagPostsData)
NoData == [d |-> "null", videos |-> <<>>, cursor |-> 0, hasMore |-> FALSE]
BadData == [d |-> "malformed", videos |-> <<>>, cursor |-> 0, hasMore |-> FALSE]
\* the inner "data" object with no key at all: {}
EmptyData == [d |-> "emptyobj", videos |-> <<>>, cursor |-> 0, hasMore |-> FALSE]
\* the inner "data" object of a /challenge/info body (HashtagInfo)
InfoData == [d |-> "info", videos |-> <<>>, cursor |-> 0, hasMore |-> FALSE]
PageLens == {0, PER_CALL_MAX \div 2, PER_CALL_MAX, MaxPageLen}
PageData ==
    { [d |-> "page", videos |-> PageVideos(c, n), cursor |-> c, hasMore |-> h] :
        c \in 1..MaxCursor, n \in PageLens, h \in BOOLEAN }

\* the provider-level fields of a body (code, msg, processed_time, data):
\*   k = "empty"   none of them is there
\*   k = "partial" a required one (code, msg, processed_time) is missing
\*   k = "full"    all required ones are there, with result code `code`
NoPayload == [k |-> "empty", code |-> 0, data |-> NoData]
PartialPayload == [k |-> "partial", code |-> 0, data |-> NoData]
FailPayloads ==
    {PartialPayload}
    \cup { [k |-> "full", code |-> 1, data |-> NoData] }
    \cup { [k |-> "full", code |-> 0, data |-> d] : d \in {NoData, BadData} }
PagePayloads == { [k |-> "full", code |-> 0, data |-> d] : d \in PageData }
\* a page sent under a result code that is not 0, and a page without keys
RefusedPayloads ==
    { [k |-> "full", code |-> 1, data |-> d] : d \in { x \in PageData : x.cursor = 1 } }
EmptyPayload == [k |-> "full", code |-> 0, data |-> EmptyData]
\* what /challenge/info can send
InfoPayloads ==
    {NoPayload, PartialPayload, [k |-> "full", code |-> 1, data |-> InfoData]}
    \cup { [k |-> "full", code |-> 0, data |-> d] :
             d \in {NoData, EmptyData, BadData, InfoData} }

\* an HTTP body:
\*   t = "none"     no content
\*   t = "garbage"  content that is not JSON
\*   t = "list"     JSON that is not a mapping (a list, a string, a number)
\*   t = "jsonnull" the JSON value null
\*   t = "dict"     a JSON mapping; message is its "message" key: ABSENT,
\*                  NULL (JSON null) or a string
Body(t, m, p) == [t |-> t, message |-> m, payload |-> p]
EmptyDict == Body("dict", ABSENT, NoPayload)
Bodies ==
    { Body(t, ABSENT, NoPayload) : t \in {"none", "garbage", "list", "jsonnull"} }
    \cup { Body("dict", m, p) : m \in {ABSENT, NULL, "Too many requests"},
                                p \in {NoPayload} \cup FailPayloads }
    \cup { Body("dict", ABSENT, p) :
             p \in PagePayloads \cup RefusedPayloads \cup {EmptyPayload} }
InfoBodies ==
    { Body(t, ABSENT, NoPayload) : t \in {"none", "garbage", "list", "jsonnull"} }
    \cup { Body("dict", ABSENT, p) : p \in InfoPayloads }

Statuses == {200, 500}

\* what one call of httpx.AsyncClient.request can do: raise a transport
\* error (httpx.RequestError), or return a response
TransportError == [kind |-> "error", status |-> 0, body |-> EmptyDict]
HttpOutcomes ==
    {TransportError}
    \cup { [kind |-> "response", status |-> s, body |-> b] : s \in Statuses, b \in Bodies }
InfoOutcomes ==
    {TransportError}
    \cup { [kind |-> "response", status |-> s, body |-> b] :
             s \in Statuses, b \in InfoBodies }

\* ------------------------------------------------------------ base.py
\* An evaluation either yields a value or raises an exception.
Ok(v) == [exc |-> "", val |-> v]
Raise(e) == [exc |-> e]

\* Optional[Dict] None: response.json() of the JSON value null
NoneDict == Body("jsonnull", ABSENT, NoPayload)

\* httpx.Response.is_success
IsSuccess(status) == status >= 200 /\ status <= 299

\* base.py:58  response.json() if response.content else {}
ResponseData(body) ==
    IF body.t = "none" THEN Ok(EmptyDict)
    ELSE IF body.t = "garbage" THEN Raise("JSONDecodeError")
    ELSE Ok(body)

\* base.py:64-66  None if response.is_success
\*                else response_data.get("message", "API request failed")
ErrorOf(status, data) ==
    IF IsSuccess(status) THEN Ok(None)
    ELSE IF data.t # "dict" THEN Raise("AttributeError")
    ELSE IF data.message = ABSENT THEN Ok(Some(Str("", "API request failed")))
    ELSE IF data.message = NULL THEN Ok(None)
    ELSE Ok(Some(Str("", data.message)))

\* base.py:10-16  APIResponse(...): pydantic validates data: Optional[Dict]
APIResponse(success, data, error, status_code) ==
    IF data.t \notin {"dict", "jsonnull"} THEN Raise("ValidationError")
    ELSE Ok([success |-> success, data |-> data, error |-> error,
             status_code |-> status_code])

\* base.py:53-67  the body of the try block
TryRequest(h) ==
    IF h.kind = "error" THEN Raise("RequestError")
    ELSE LET response_data == ResponseData(h.body) IN
         IF response_data.exc # "" THEN response_data
         ELSE LET error == ErrorOf(h.status, response_data.val) IN
              IF error.exc # "" THEN error
              ELSE APIResponse(IsSuccess(h.status), response_data.val,
                               error.val, Some(h.status))

\* the except clauses with only httpx.RequestError handled
ExceptOnlyRequestError(exc) ==
    IF exc = "RequestError"
    THEN APIResponse(FALSE, NoneDict, Some(Str("Request failed: ", exc)), None)
    ELSE Raise(exc)

\* base.py:69-76  except httpx.RequestError / except Exception
Except(exc) ==
    IF exc = "RequestError"
    THEN APIResponse(FALSE, NoneDict, Some(Str("Request failed: ", exc)), None)
    ELSE APIResponse(FALSE, NoneDict, Some(Str("Unexpected error: ", exc)), None)

\* base.py:43-76  BaseAPIClient._make_request on the HTTP outcome h
MakeRequest(h) ==
    LET r == TryRequest(h) IN IF r.exc = "" THEN r ELSE Except(r.exc)

\* ------------------------------------------------------------ gateways
\* One gateway (a TikTokClient instance) per tool call; the two tools run
\* concurrently, each with its own.
Gateways == {"posts", "search"}

\* The gateways and their connections (httpx.AsyncClient objects):
\*   made       the gateways constructed so far
\*   client[g]  self._client of gateway g: 0 is None, c > 0 is connection c
\*   owner[c]   the gateway whose client property created connection c
\*   closes     the aclose() calls so far: connection closed, and by whom
NoGateways ==
    [made |-> {}, client |-> [g \in Gateways |-> 0], owner |-> <<>>, closes |-> <<>>]

\* base.py:22-27  __init__: self._client = None
NewGateway(st, g) == [st EXCEPT !.made = @ \cup {g}, !.client[g] = 0]

\* the client property with _client an attribute of the class, shared by
\* every gateway
UseSharedClient(st, g) ==
    IF st.client[g] # 0 THEN st
    ELSE IF \E g2 \in Gateways : st.client[g2] # 0
    THEN [st EXCEPT !.client[g] =
              st.client[CHOOSE g2 \in Gateways : st.client[g2] # 0]]
    ELSE [st EXCEPT !.client[g] = Len(st.owner) + 1, !.owner = Append(@, g)]

\* base.py:29-36  the client property: create on first use, then reuse
UseClient(st, g) ==
    IF st.client[g] = 0
    THEN [st EXCEPT !.client[g] = Len(st.owner) + 1, !.owner = Append(@, g)]
    ELSE st

\* close() that leaves self._client in place
CloseNoClear(st, g) ==
    IF st.client[g] # 0
    THEN [st EXCEPT !.closes = Append(@, [conn |-> st.client[g], by |-> g])]
    ELSE st

\* base.py:78-82  close(), which __aexit__ (base.py:88-90) awaits
Close(st, g) ==
    IF st.client[g] # 0
    THEN [st EXCEPT !.closes = Append(@, [conn |-> st.client[g], by |-> g]),
                    !.client[g] = 0]
    ELSE st

\* ------------------------------------------------------------ client.py
\* truth value of response.data: a non-empty mapping
Truthy(data) == data.t = "dict" /\ data # EmptyDict

\* client.py:114-119
PaginatedResult(videos, cursor, has_more) ==
    [videos |-> videos, cursor |-> cursor, has_more |-> has_more,
     total_fetched |-> Len(videos)]

\* get_hashtag_posts_page without the test of the result code
DecodePageAnyCode(response) ==
    IF ~response.success \/ ~Truthy(response.data) THEN None
    ELSE LET p == response.data.payload IN
         IF p.k # "full" THEN None
         ELSE IF p.data.d = "malformed" THEN None
         ELSE IF p.data.d = "null" THEN None
         ELSE Some(PaginatedResult(p.data.videos, p.data.cursor, p.data.hasMore))

\* client.py:104-122  get_hashtag_posts_page, from the envelope on
DecodePage(response) ==
    IF ~response.success \/ ~Truthy(response.data) THEN None
    ELSE LET p == response.data.payload IN
         IF p.k # "full" THEN None                  \* HashtagPostsResponse(**data) raises
         ELSE IF p.data.d = "malformed" THEN None   \* HashtagPostsData does not validate
         ELSE IF p.code # 0 \/ p.data.d = "null" THEN None
         ELSE Some(PaginatedResult(p.data.videos, p.data.cursor, p.data.hasMore))

\* models.py:28-41  what HashtagInfo(**data) holds
HashtagInfo == [id |-> "7", cha_name |-> "dance"]

\* client.py:47-61  get_hashtag_info, from the envelope on
DecodeInfo(response) ==
    IF ~response.success \/ ~Truthy(response.data) THEN None
    ELSE LET p == response.data.payload IN
         IF p.k # "full" THEN None                  \* TikTokAPIResponse(**data) raises
         ELSE IF p.data.d = "malformed" THEN None   \* data is not a mapping, or lacks id
         ELSE IF p.code # 0 \/ p.data.d \in {"null", "emptyobj"} THEN None
         ELSE Some(HashtagInfo)

\* has_more as the page cap being hit with the target reached
HasMoreAtCap(fetched, cap, collected, target) ==
    fetched >= cap /\ collected >= target

\* client.py:167  the has_more of the accumulated result
HasMore(fetched, cap, collected, target) ==
    fetched < cap /\ collected >= target

\* the count passed on as the caller gave it
KeepCount(count) == count

\* client.py:143-144 and client.py:96  the count sent upstream
PageSize(target, collected) == Min(PER_CALL_MAX, target - collected)
ClampCount(count) == Min(count, PER_CALL_MAX)

\* the loop condition without the page cap
LoopCondNoCap(collected, target, fetched, cap) ==
    collected < target

\* the loop condition letting one page too many through
LoopCondOffByOne(collected, target, fetched, cap) ==
    collected < target /\ fetched <= cap

\* client.py:141  the condition of the while loop
LoopCond(collected, target, fetched, cap) ==
    collected < target /\ fetched < cap

\* the test of client.py:150 without its second half
PageIsAbsent(page) == page = None

\* client.py:150  if not page_result or not page_result.videos
PageIsEmpty(page) == page = None \/ page[1].videos = <<>>

\* the merge dropping the records it already holds
ExtendDedup(videos, more) ==
    videos \o SelectSeq(more, LAMBDA v : \A i \in 1..Len(videos) : videos[i] # v)

\* client.py:153  all_videos.extend(page_result.videos)
Extend(videos, more) == videos \o more

\* client.py:151  break: the position after an absent or empty page
BreakOnEmptyPage == "return"

\* the continuation cursor left where it was
KeepCursor(cur, page) == cur

\* client.py:154  cursor = page_result.cursor
NextCursor(cur, page) == page.cursor

\* the loop going on after a page that reports has_more = false
NeverNoMoreData(page) == FALSE

\* client.py:158  if not page_result.has_more
NoMoreData(page) == ~page.has_more

\* ------------------------------------------------------------ tiktok_tools.py
\* os.getenv("RAPIDAPI_KEY"): ABSENT (None), the empty string, or a key
ApiKeys == {ABSENT, "", "secret"}

\* the credential test as "is None"
KeyIsNone(key) == key = ABSENT

\* tiktok_tools.py:22 and 85  if not api_key
KeyMissing(key) == key = ABSENT \/ key = ""

\* the dictionary a tool returns
ToolResult(success, error, video_count, has_more, next_cursor) ==
    [success |-> success, error |-> error, video_count |-> video_count,
     has_more |-> has_more, next_cursor |-> next_cursor]
\* tiktok_tools.py:23 and 86
ConfigError ==
    ToolResult(FALSE, Str("RAPIDAPI_KEY environment variable not set", ""), 0, FALSE, 0)
\* tiktok_tools.py:30-34 and 99-103
NotFound == ToolResult(FALSE, Str("", " not found or API request failed"), 0, FALSE, 0)
\* tiktok_tools.py:58-63 and 162-167
ToolFailed(exc) == ToolResult(FALSE, Str("Failed to ", exc), 0, FALSE, 0)

\* tiktok_tools.py:90-91 the arguments handed to get_hashtag_posts
ToolTarget(count) == Max(count, 1)
ToolMaxPages(count) == Min(ToolTarget(count) \div PER_CALL_MAX + 1, MAX_TOOL_PAGES)
\* the counts the agent passes to tiktok_hashtag_posts
ToolCounts == {0, 1, PER_CALL_MAX}

\* tiktok_tools.py:98-160  what tiktok_hashtag_posts makes of the fetch
PostsToolResult(res) ==
    IF res = None \/ res[1].videos = <<>> THEN NotFound
    ELSE ToolResult(TRUE, Str("", ""), Len(res[1].videos), res[1].has_more,
                    res[1].cursor)

\* tiktok_tools.py:29-56  what tiktok_hashtag_search makes of the info
SearchToolResult(info) ==
    IF info = None THEN NotFound ELSE ToolResult(TRUE, Str("", ""), 0, FALSE, 0)

\* ------------------------------------------------------------ task management
\* An item of the list passed to task_manager.  A key the item does not
\* hold is ABSENT (NoId for "id"); dict = FALSE is an item that is no
\* mapping.
NoId == 0
\* an "id" that cannot be hashed (a list, a mapping)
UnhashableId == -1
\* the ids the agent gives to tasks
GivenIds == {1}
\* Task.id when the item gives none: str(uuid4())[:8], which no other
\* object holds; the id is then AutoId + the object's number
AutoId == 100
\* a "content" that is true but no string (a list)
NONSTR == "<list>"

Item(content, status, priority, id) ==
    [dict |-> TRUE, content |-> content, status |-> status,
     priority |-> priority, id |-> id]
NonDictItem ==
    [dict |-> FALSE, content |-> ABSENT, status |-> ABSENT,
     priority |-> ABSENT, id |-> NoId]
TaskItems ==
    { Item(c, ABSENT, ABSENT, i) : c \in {"a", "b"}, i \in {NoId} \cup GivenIds }
    \cup { Item("a", "completed", "high", 1) }
    \cup { Item(NONSTR, ABSENT, ABSENT, NoId), Item("a", ABSENT, ABSENT, UnhashableId) }
    \cup { Item(ABSENT, ABSENT, ABSENT, NoId), Item("a", "bogus", ABSENT, NoId),
           Item("a", ABSENT, "bogus", NoId), NonDictItem }

\* the tasks argument: None, something that is no list, or a list of items
TaskInput(kind, items) == [kind |-> kind, items |-> items]
GetInputs == {TaskInput("none", <<>>), TaskInput("list", <<>>)}
ManageInputs ==
    {TaskInput("nonlist", <<>>)}
    \cup { TaskInput("list", l) : l \in UNION { [1..k -> TaskItems] : k \in 1..MaxItems } }

\* models.py:10-23
TaskStatuses == {"pending", "in_progress", "completed"}
TaskPriorities == {"low", "medium", "high"}

\* models.py:26-34  a Task object.  obj is the identity of the object: two
\* entries of a list with the same obj are one object.  updated_at is
\* relative to the call of task_manager last made: "now" is written by
\* that call, "old" by an earlier one.
Task(id, content, status, priority, obj) ==
    [id |-> id, content |-> content, status |-> status, priority |-> priority,
     updated_at |-> "now", obj |-> obj]
TaskId(t) == IF t.id = AutoId THEN AutoId + t.obj ELSE t.id

\* time passes between two calls
Age(tasks) == [i \in 1..Len(tasks) |-> [tasks[i] EXCEPT !.updated_at = "old"]]

\* task_tools.py:50-76  the first complaint about an item, "" if none
ItemError(d) ==
    IF ~d.dict THEN "must be a dictionary"
    ELSE IF d.content = ABSENT THEN "missing required 'content' field"
    ELSE IF d.status # ABSENT /\ d.status \notin TaskStatuses THEN "has invalid status"
    ELSE IF d.priority # ABSENT /\ d.priority \notin TaskPriorities
    THEN "has invalid priority"
    ELSE ""
ValidationError(items) ==
    IF \A i \in 1..Len(items) : ItemError(items[i]) = "" THEN ""
    ELSE ItemError(items[CHOOSE i \in 1..Len(items) :
                           /\ ItemError(items[i]) # ""
                           /\ \A j \in 1..(i - 1) : ItemError(items[j]) = ""])

\* manager.py:52-53  data.get("status", "pending"), data.get("priority", "medium")
StatusOf(d) == IF d.status = ABSENT THEN "pending" ELSE d.status
PriorityOf(d) == IF d.priority = ABSENT THEN "medium" ELSE d.priority

\* the objects of a list of tasks, by number, and the list as references
Heap(tasks) ==
    [o \in 1..Cardinality({ tasks[i].obj : i \in 1..Len(tasks) }) |->
        tasks[CHOOSE i \in 1..Len(tasks) : tasks[i].obj = o]]
Refs(tasks) == [i \in 1..Len(tasks) |-> tasks[i].obj]
Deref(heap, refs) == [i \in 1..Len(refs) |-> heap[refs[i]]]
\* the same list with its objects numbered in order of first appearance
Renumber(tasks) ==
    LET first(i) == CHOOSE j \in 1..i :
                       /\ tasks[j].obj = tasks[i].obj
                       /\ \A k \in 1..(j - 1) : tasks[k].obj # tasks[i].obj
        num(i) == Cardinality({ tasks[j].obj : j \in 1..first(i) })
    IN [i \in 1..Len(tasks) |-> [tasks[i] EXCEPT !.obj = num(i)]]

\* manager.py:57-61  the first existing task with this id
FirstWithId(heap, existing, id) ==
    existing[CHOOSE i \in 1..Len(existing) :
                /\ TaskId(heap[existing[i]]) = id
                /\ \A j \in 1..(i - 1) : TaskId(heap[existing[j]]) # id]

\* manager.py:64-67  the update of an existing task, in place
UpdateInPlace(heap, o, d) ==
    [heap EXCEPT ![o] = [@ EXCEPT !.content = d.content, !.updated_at = "now",
                                  !.status = StatusOf(d), !.priority = PriorityOf(d)]]

\* manager.py:50-87  the loop over the items; existing is the list of the
\* state, updated the list being built, heap the objects
RECURSIVE UpdateLoop(_, _, _, _)
UpdateLoop(items, existing, heap, updated) ==
    IF items = <<>> THEN [exc |-> "", heap |-> heap, updated |-> updated]
    ELSE LET d == Head(items) IN
         IF d.id = UnhashableId                     \* data["id"] in existing_ids
         THEN [exc |-> "TypeError", heap |-> heap, updated |-> updated]
         ELSE IF d.id # NoId
                 /\ \E i \in 1..Len(existing) : TaskId(heap[existing[i]]) = d.id
         THEN LET o == FirstWithId(heap, existing, d.id)
              IN UpdateLoop(Tail(items), existing, UpdateInPlace(heap, o, d),
                            Append(updated, o))
         ELSE IF d.content = NONSTR                 \* Task(content=...) does not validate
         THEN [exc |-> "ValidationError", heap |-> heap, updated |-> updated]
         ELSE UpdateLoop(Tail(items), existing,
                         Append(heap, Task(IF d.id = NoId THEN AutoId ELSE d.id,
                                           d.content, StatusOf(d), PriorityOf(d),
                                           Len(heap) + 1)),
                         Append(updated, Len(heap) + 1))

\* what a call of task_manager returns
TaskResult(mode, success, error) ==
    [mode |-> mode, success |-> success, error |-> error]

\* manager.py:41-126  update_tasks_in_state on the tasks of the state
UpdateTasksInState(tasks, items) ==
    LET r == UpdateLoop(items, Refs(tasks), Heap(tasks), <<>>) IN
    IF r.exc = ""
    THEN [tasks |-> Renumber(Deref(r.heap, r.updated)),
          result |-> TaskResult("manage", TRUE, "")]
    ELSE [tasks |-> Deref(r.heap, Refs(tasks)),
          result |-> TaskResult("manage", FALSE, r.exc)]

\* task_tools.py:38-101  task_manager(state, tasks)
TaskManager(tasks, input) ==
    IF input.kind = "none" \/ (input.kind = "list" /\ input.items = <<>>)
    THEN [tasks |-> tasks, result |-> TaskResult("get", TRUE, "")]
    ELSE IF input.kind # "list"
    THEN [tasks |-> tasks, result |-> TaskResult("manage", FALSE, "must be a list")]
    ELSE IF ValidationError(input.items) # ""
    THEN [tasks |-> tasks,
          result |-> TaskResult("manage", FALSE, ValidationError(input.items))]
    ELSE UpdateTasksInState(tasks, input.items)

\* ------------------------------------------------------------ state
VARIABLES
    pc,             \* position of get_hashtag_posts: idle, loop, await, return,
                    \* done, raised, cancelled; of a lone get_hashtag_posts_page:
                    \* page_await, page_done
    target_count,   \* argument
    max_pages,      \* argument
    all_videos,     \* client.py:137
    cursor,         \* client.py:138
    pages_fetched,  \* client.py:139
    page_result,    \* client.py:146  Optional[PaginatedResult]
    result,         \* what get_hashtag_posts returned: Optional[PaginatedResult]
    requests,       \* the page requests sent upstream so far: [count, cursor]
    http,           \* the outcome of the last HTTP call: Optional
    response,       \* the envelope _make_request returned last: Optional[APIResponse]
    pageLog,        \* the page_result of every page call so far, in call order
    avail,          \* 0: the remote API answers anything; k > 0: it holds k
                    \* non-empty pages, has_more = true on all but the k-th
    asked,          \* the arguments of a lone get_hashtag_posts_page: Optional
    gw,             \* the gateways and their connections (see NoGateways)
    info_pc,        \* position of get_hashtag_info: idle, await, done, raised, cancelled
    info_sent,      \* the requests sent to /challenge/info so far
    info_http,      \* the outcome of the HTTP call of get_hashtag_info: Optional
    info_result,    \* what get_hashtag_info returned: Optional[HashtagInfo]
    api_key,        \* the environment variable RAPIDAPI_KEY
    tool_pc,        \* position of each tool: idle, scope (inside async with),
                    \* done, cancelled
    tool_result,    \* what each tool returned: Optional
    state_tasks,    \* state["tasks"]: the list of Task objects
    task_result     \* what task_manager returned last

fetchVars == <<pc, target_count, max_pages, all_videos, cursor, pages_fetched,
               page_result, result, requests, http, response, pageLog, avail,
               asked>>
infoVars == <<info_pc, info_sent, info_http, info_result>>
toolVars == <<api_key, tool_pc, tool_result>>
taskVars == <<state_tasks, task_result>>
vars == <<fetchVars, gw, infoVars, toolVars, taskVars>>

TargetCounts == {0, 1, PER_CALL_MAX, DEFAULT_TARGET, MaxTarget}
MaxPagesArgs == -1..MaxPagesCap
Avails == 0..(MaxPagesCap + 1)

\* the answers the remote API can give to the i-th page request
Upstream(i) ==
    IF avail = 0 THEN HttpOutcomes
    ELSE { h \in HttpOutcomes :
             /\ h.kind = "response" /\ h.status = 200
             /\ h.body \in { Body("dict", ABSENT, p) : p \in PagePayloads }
             /\ (h.body.payload.data.videos # <<>>) = (i <= avail)
             /\ h.body.payload.data.hasMore = (i < avail) }

Init ==
    /\ pc = "idle"
    /\ target_count = 0
    /\ max_pages = 0
    /\ all_videos = <<>>
    /\ cursor = 0
    /\ pages_fetched = 0
    /\ page_result = None
    /\ result = None
    /\ requests = <<>>
    /\ http = None
    /\ response = None
    /\ pageLog = <<>>
    /\ avail = 0
    /\ asked = None
    /\ gw = NoGateways
    /\ info_pc = "idle"
    /\ info_sent = 0
    /\ info_http = None
    /\ info_result = None
    /\ api_key = ABSENT
    /\ tool_pc = [g \in Gateways |-> "idle"]
    /\ tool_result = [g \in Gateways |-> None]
    /\ state_tasks = <<>>
    /\ task_result = TaskResult("none", TRUE, "")

\* client.py:124-139  get_hashtag_posts is called on a new gateway
Call ==
    /\ pc = "idle" /\ info_pc = "idle"
    /\ \A g \in Gateways : tool_pc[g] = "idle"
    /\ gw' = NewGateway(gw, "posts")
    /\ \E t \in TargetCounts, m \in MaxPagesArgs, k \in Avails :
          /\ target_count' = t
          /\ max_pages' = m
          /\ avail' = k
    /\ all_videos' = <<>>
    /\ cursor' = 0
    /\ pages_fetched' = 0
    /\ pc' = "loop"
    /\ UNCHANGED <<page_result, result, requests, http, response, pageLog, asked>>
    /\ UNCHANGED <<infoVars, toolVars, taskVars>>

\* client.py:141-148 and 95-102  the loop test, then the page request is sent
LoopTest ==
    /\ pc = "loop"
    /\ Len(requests) < MaxCalls
    /\ IF LoopCond(Len(all_videos), target_count, pages_fetched, max_pages)
       THEN /\ requests' = Append(requests,
                  [count |-> ClampCount(PageSize(target_count, Len(all_videos))),
                   cursor |-> cursor])
            /\ gw' = UseClient(gw, "posts")
            /\ pc' = "await"
       ELSE /\ pc' = "return"
            /\ UNCHANGED <<requests, gw>>
    /\ UNCHANGED <<target_count, max_pages, all_videos, cursor, pages_fetched,
                   page_result, result, http, response, pageLog, avail, asked>>
    /\ UNCHANGED <<infoVars, toolVars, taskVars>>

\* base.py:53-76, client.py:104-122 and 150-159  the HTTP call ends, the
\* envelope is built and decoded, and the page is merged
Receive ==
    /\ pc = "await"
    /\ \E h \in Upstream(Len(requests)) :
          LET r == MakeRequest(h) IN
          /\ http' = Some(h)
          /\ IF r.exc # ""
             THEN /\ pc' = "raised"
                  /\ UNCHANGED <<all_videos, cursor, pages_fetched, page_result,
                                 response, pageLog>>
             ELSE LET page == DecodePage(r.val) IN
                  /\ response' = Some(r.val)
                  /\ page_result' = page
                  /\ pageLog' = Append(pageLog, page)
                  /\ IF PageIsEmpty(page)
                     THEN /\ pc' = BreakOnEmptyPage
                          /\ UNCHANGED <<all_videos, cursor, pages_fetched>>
                     ELSE /\ all_videos' = Extend(all_videos, page[1].videos)
                          /\ cursor' = NextCursor(cursor, page[1])
                          /\ pages_fetched' = pages_fetched + 1
                          /\ pc' = IF NoMoreData(page[1]) THEN "return" ELSE "loop"
    /\ UNCHANGED <<target_count, max_pages, result, requests, avail, asked>>
    /\ UNCHANGED <<gw, infoVars, toolVars, taskVars>>

\* client.py:161-169
Return ==
    /\ pc = "return"
    /\ result' = IF all_videos = <<>> THEN None
                 ELSE Some([videos |-> all_videos,
                            cursor |-> cursor,
                            has_more |-> HasMore(pages_fetched, max_pages,
                                                 Len(all_videos), target_count),
                            total_fetched |-> Len(all_videos)])
    /\ pc' = "done"
    /\ UNCHANGED <<target_count, max_pages, all_videos, cursor, pages_fetched,
                   page_result, requests, http, response, pageLog, avail, asked>>
    /\ UNCHANGED <<gw, infoVars, toolVars, taskVars>>

Next == Call \/ LoopTest \/ Receive \/ Return

Spec == Init /\ [][Next]_vars

\* The event loop runs a coroutine that can take a step, and every page
\* call returns: no step that is possible is put off for ever.
FairSpec == Spec /\ WF_vars(Next)

\* ------------------------------------------------------------ one call of the client
\* the counts and cursors a caller passes to get_hashtag_posts_page
DirectCounts == {0, 1, PER_CALL_MAX, PER_CALL_MAX + 1, MaxTarget}

\* client.py:82-102  get_hashtag_posts_page is called on a new gateway, and
\* its request is sent
PageCall ==
    /\ pc = "idle" /\ info_pc = "idle"
    /\ \A g \in Gateways : tool_pc[g] = "idle"
    /\ \E n \in DirectCounts, c \in 0..MaxCursor :
          /\ asked' = Some([count |-> n, cursor |-> c])
          /\ requests' = Append(requests, [count |-> ClampCount(n), cursor |-> c])
    /\ gw' = UseClient(NewGateway(gw, "posts"), "posts")
    /\ pc' = "page_await"
    /\ UNCHANGED <<target_count, max_pages, all_videos, cursor, pages_fetched,
                   page_result, result, http, response, pageLog, avail>>
    /\ UNCHANGED <<infoVars, toolVars, taskVars>>

\* base.py:53-76 and client.py:104-122  the HTTP call ends, the envelope is
\* built and decoded
PageReceive ==
    /\ pc = "page_await"
    /\ \E h \in HttpOutcomes :
          LET r == MakeRequest(h) IN
          /\ http' = Some(h)
          /\ IF r.exc # ""
             THEN /\ pc' = "raised"
                  /\ UNCHANGED <<response, page_result>>
             ELSE /\ response' = Some(r.val)
                  /\ page_result' = DecodePage(r.val)
                  /\ pc' = "page_done"
    /\ UNCHANGED <<target_count, max_pages, all_videos, cursor, pages_fetched,
                   result, requests, pageLog, avail, asked>>
    /\ UNCHANGED <<gw, infoVars, toolVars, taskVars>>

\* client.py:29-45  get_hashtag_info is called on a new gateway, and its
\* request is sent
InfoCall ==
    /\ pc = "idle" /\ info_pc = "idle"
    /\ \A g \in Gateways : tool_pc[g] = "idle"
    /\ gw' = UseClient(NewGateway(gw, "search"), "search")
    /\ info_sent' = info_sent + 1
    /\ info_pc' = "await"
    /\ UNCHANGED <<info_http, info_result>>
    /\ UNCHANGED <<fetchVars, toolVars, taskVars>>

\* base.py:53-76 and client.py:47-61  the HTTP call ends, the envelope is
\* built and decoded
InfoReceive ==
    /\ info_pc = "await"
    /\ \E h \in InfoOutcomes :
          LET r == MakeRequest(h) IN
          /\ info_http' = Some(h)
          /\ IF r.exc # ""
             THEN /\ info_pc' = "raised"
                  /\ UNCHANGED info_result
             ELSE /\ info_result' = DecodeInfo(r.val)
                  /\ info_pc' = "done"
    /\ UNCHANGED info_sent
    /\ UNCHANGED <<fetchVars, gw, toolVars, taskVars>>

NextClient ==
    \/ Call \/ LoopTest \/ Receive \/ Return
    \/ PageCall \/ PageReceive \/ InfoCall \/ InfoReceive

\* the client called once: a fetch, one page, or one hashtag
SpecClient == Init /\ [][NextClient]_vars

\* ------------------------------------------------------------ the two tools
\* the environment variable is set before the agent runs its tools
SetEnv ==
    /\ pc = "idle" /\ info_pc = "idle"
    /\ \A g \in Gateways : tool_pc[g] = "idle"
    /\ api_key = ABSENT
    /\ api_key' \in ApiKeys \ {ABSENT}
    /\ UNCHANGED <<tool_pc, tool_result>>
    /\ UNCHANGED <<fetchVars, gw, infoVars, taskVars>>

\* tiktok_tools.py:84-96 and client.py:124-139  tiktok_hashtag_posts is
\* called: it enters the scope of a new gateway and calls get_hashtag_posts
PostsTool ==
    /\ tool_pc["posts"] = "idle" /\ pc = "idle"
    /\ IF KeyMissing(api_key)
       THEN /\ tool_result' = [tool_result EXCEPT !["posts"] = Some(ConfigError)]
            /\ tool_pc' = [tool_pc EXCEPT !["posts"] = "done"]
            /\ UNCHANGED <<fetchVars, gw>>
       ELSE /\ \E count \in ToolCounts :
                  /\ target_count' = ToolTarget(count)
                  /\ max_pages' = ToolMaxPages(count)
            /\ gw' = NewGateway(gw, "posts")
            /\ all_videos' = <<>>
            /\ cursor' = 0
            /\ pages_fetched' = 0
            /\ pc' = "loop"
            /\ tool_pc' = [tool_pc EXCEPT !["posts"] = "scope"]
            /\ UNCHANGED <<page_result, result, requests, http, response, pageLog,
                           avail, asked, tool_result>>
    /\ UNCHANGED <<api_key, infoVars, taskVars>>

\* tiktok_tools.py:98-167 and base.py:88-90  get_hashtag_posts has
\* returned (or raised): the tool builds its result and leaves the scope
PostsToolExit ==
    /\ tool_pc["posts"] = "scope" /\ pc \in {"done", "raised"}
    /\ tool_result' = [tool_result EXCEPT !["posts"] =
           Some(IF pc = "raised" THEN ToolFailed("get hashtag posts")
                ELSE PostsToolResult(result))]
    /\ gw' = Close(gw, "posts")
    /\ tool_pc' = [tool_pc EXCEPT !["posts"] = "done"]
    /\ UNCHANGED <<api_key, fetchVars, infoVars, taskVars>>

\* the task running tiktok_hashtag_posts is cancelled while it awaits a
\* page: CancelledError, which no "except Exception" catches, leaves the
\* scope through __aexit__
PostsCancel ==
    /\ tool_pc["posts"] = "scope" /\ pc = "await"
    /\ pc' = "cancelled"
    /\ gw' = Close(gw, "posts")
    /\ tool_pc' = [tool_pc EXCEPT !["posts"] = "cancelled"]
    /\ UNCHANGED <<target_count, max_pages, all_videos, cursor, pages_fetched,
                   page_result, result, requests, http, response, pageLog, avail,
                   asked>>
    /\ UNCHANGED <<api_key, tool_result, infoVars, taskVars>>

\* tiktok_tools.py:21-27 and client.py:29-45  tiktok_hashtag_search is
\* called: it enters the scope of a new gateway and calls get_hashtag_info
SearchTool ==
    /\ tool_pc["search"] = "idle" /\ info_pc = "idle"
    /\ IF KeyMissing(api_key)
       THEN /\ tool_result' = [tool_result EXCEPT !["search"] = Some(ConfigError)]
            /\ tool_pc' = [tool_pc EXCEPT !["search"] = "done"]
            /\ UNCHANGED <<gw, infoVars>>
       ELSE /\ gw' = UseClient(NewGateway(gw, "search"), "search")
            /\ info_sent' = info_sent + 1
            /\ info_pc' = "await"
            /\ tool_pc' = [tool_pc EXCEPT !["search"] = "scope"]
            /\ UNCHANGED <<info_http, info_result, tool_result>>
    /\ UNCHANGED <<api_key, fetchVars, taskVars>>

\* tiktok_tools.py:29-63 and base.py:88-90  get_hashtag_info has returned
\* (or raised): the tool builds its result and leaves the scope
SearchToolExit ==
    /\ tool_pc["search"] = "scope" /\ info_pc \in {"done", "raised"}
    /\ tool_result' = [tool_result EXCEPT !["search"] =
           Some(IF info_pc = "raised" THEN ToolFailed("search TikTok hashtag")
                ELSE SearchToolResult(info_result))]
    /\ gw' = Close(gw, "search")
    /\ tool_pc' = [tool_pc EXCEPT !["search"] = "done"]
    /\ UNCHANGED <<api_key, fetchVars, infoVars, taskVars>>

\* the task running tiktok_hashtag_search is cancelled while it awaits
SearchCancel ==
    /\ tool_pc["search"] = "scope" /\ info_pc = "await"
    /\ info_pc' = "cancelled"
    /\ gw' = Close(gw, "search")
    /\ tool_pc' = [tool_pc EXCEPT !["search"] = "cancelled"]
    /\ UNCHANGED <<info_sent, info_http, info_result>>
    /\ UNCHANGED <<api_key, tool_result, fetchVars, taskVars>>

\* base.py:78-82  close() is called once more on a gateway whose scope
\* was left
Release ==
    /\ \E g \in gw.made :
          /\ tool_pc[g] \in {"done", "cancelled"}
          /\ gw' = Close(gw, g)
    /\ UNCHANGED <<fetchVars, infoVars, toolVars, taskVars>>

NextTools ==
    \/ SetEnv
    \/ PostsTool \/ LoopTest \/ Receive \/ Return \/ PostsToolExit \/ PostsCancel
    \/ SearchTool \/ InfoReceive \/ SearchToolExit \/ SearchCancel
    \/ Release

\* the agent runs its two TikTok tools, concurrently
SpecTools == Init /\ [][NextTools]_vars

\* ------------------------------------------------------------ the task tool
\* task_tools.py:38-41  task_manager in GET mode
TaskGet ==
    /\ \E input \in GetInputs :
          LET r == TaskManager(Age(state_tasks), input) IN
          /\ state_tasks' = r.tasks
          /\ task_result' = r.result
    /\ UNCHANGED <<fetchVars, gw, infoVars, toolVars>>

\* task_tools.py:43-101  task_manager in MANAGE mode
TaskManage ==
    /\ \E input \in ManageInputs :
          LET r == TaskManager(Age(state_tasks), input) IN
          /\ state_tasks' = r.tasks
          /\ task_result' = r.result
    /\ UNCHANGED <<fetchVars, gw, infoVars, toolVars>>

NextTasks == TaskGet \/ TaskManage

\* the agent calls task_manager again and again
SpecTasks == Init /\ [][NextTasks]_vars

\* ------------------------------------------------------------ properties
\* What the claims speak of, read off the log of page calls rather than
\* off the loop's own variables.
Done == pc = "done"
Returned == pc = "done" /\ result # None

\* a page call that came back absent, or with zero records
LogEmpty(i) == pageLog[i] = None \/ Len(pageLog[i][1].videos) = 0
\* the number of non-empty pages received
MergedPages == Cardinality({ i \in 1..Len(pageLog) : ~LogEmpty(i) })
\* the records of the first n page calls, in arrival order
RECURSIVE Arrived(_)
Arrived(n) ==
    IF n = 0 THEN <<>>
    ELSE Arrived(n - 1) \o (IF LogEmpty(n) THEN <<>> ELSE pageLog[n][1].videos)
\* the calls a cap of max_pages allows
Cap == IF max_pages > 0 THEN max_pages ELSE 0

\* C1 (as stated): a returned result has
\* has_more = (pagesFetched >= maxPages) and (collected >= targetCount).
C1_HasMoreAtCap ==
    Returned =>
        result[1].has_more =
            (MergedPages >= max_pages /\ Len(result[1].videos) >= target_count)

\* C1 (amended): a returned result has
\* has_more = (pagesFetched < maxPages) and (collected >= targetCount),
\* pagesFetched being the number of non-empty pages merged.
C1_HasMoreBelowCap ==
    Returned =>
        result[1].has_more =
            (MergedPages < max_pages /\ Len(result[1].videos) >= target_count)

\* C1 witness: a result with has_more = true after two merged pages.
C1_Witness ==
    Returned /\ result[1].has_more /\ MergedPages = 2

\* C2: a returned result with has_more = true implies that the last page
\* fetched reported has_more = true.
C2_HasMoreOnlyIfUpstreamHasMore ==
    (Returned /\ result[1].has_more) =>
        /\ pageLog # <<>>
        /\ pageLog[Len(pageLog)] # None
        /\ pageLog[Len(pageLog)][1].has_more

\* every page received so far held n records and reported has_more = true
AllPagesFull(n) ==
    \A i \in 1..Len(pageLog) :
        /\ pageLog[i] # None
        /\ Len(pageLog[i][1].videos) = n
        /\ pageLog[i][1].has_more

\* C3: when the page cap cuts the loop short while every page reported
\* has_more = true and the target is not reached, the result has
\* has_more = true; with target 100, cap 3 and pages of 20 the fetch makes
\* 3 calls and returns 60 records with has_more = true.
C3_CapCutReportsMore ==
    /\ (Returned /\ MergedPages >= max_pages
          /\ Len(result[1].videos) < target_count
          /\ \A i \in 1..Len(pageLog) : pageLog[i] # None /\ pageLog[i][1].has_more)
        => result[1].has_more
    /\ (Done /\ target_count = 100 /\ max_pages = 3 /\ AllPagesFull(PER_CALL_MAX))
        => /\ Len(requests) = 3
           /\ result # None
           /\ Len(result[1].videos) = 60
           /\ result[1].has_more

\* C4: the number of page requests sent upstream never exceeds max_pages,
\* and is zero when max_pages <= 0.
C4_CallsAtMostMaxPages ==
    pc # "idle" => Len(requests) <= Cap

\* C4 witness: the cap of 3 is exhausted and the target is not reached.
C4_Witness ==
    /\ Done /\ max_pages = 3 /\ Len(requests) = 3
    /\ Len(all_videos) < target_count

\* C5: a page call that comes back absent or with zero records is the last
\* call of the fetch; the result is then the records collected before it,
\* or absent when there are none (one call and absent when it is the
\* first page).
C5_NoRetryAfterEmptyPage ==
    /\ \A i \in 1..Len(pageLog) :
          LogEmpty(i) => (i = Len(pageLog) /\ Len(requests) = i)
    /\ (Done /\ pageLog # <<>> /\ LogEmpty(Len(pageLog))) =>
          /\ Arrived(Len(pageLog) - 1) = <<>> => result = None
          /\ Arrived(Len(pageLog) - 1) # <<>> =>
                (result # None /\ result[1].videos = Arrived(Len(pageLog) - 1))
    /\ (Done /\ pageLog # <<>> /\ LogEmpty(1)) =>
          (Len(requests) = 1 /\ result = None)

\* C5 witness: the second page arrives with zero records and has_more =
\* true, and the fetch returns the records of the first page.
C5_Witness ==
    /\ Done /\ Len(pageLog) = 2 /\ Len(requests) = 2
    /\ pageLog[2] # None
    /\ pageLog[2][1].videos = <<>> /\ pageLog[2][1].has_more
    /\ result # None /\ result[1].videos = pageLog[1][1].videos

\* C6 (as stated): against a remote API holding avail non-empty pages, the
\* last of which alone reports has_more = false, the fetch makes exactly
\* avail calls when avail <= max_pages, and never more than max_pages
\* (read for the targets that ask for at least one record).
C6_CallsEqualPagesAvailable ==
    (Done /\ avail > 0 /\ target_count > 0) =>
        /\ avail <= max_pages => Len(requests) = avail
        /\ Len(requests) <= Cap

\* C6 (amended): the fetch makes at most min(avail, max_pages) calls, and
\* exactly avail calls when avail <= max_pages and the pages before the
\* last hold fewer than target_count records together: a fetch that stops
\* before the last page has reached its target.
C6_CallsEqualPagesUnlessTargetMet ==
    (Done /\ avail > 0) =>
        /\ Len(requests) <= Min(avail, Cap)
        /\ (avail <= max_pages /\ Len(requests) < avail) =>
              Len(Arrived(Len(pageLog))) >= target_count
        /\ (avail <= max_pages /\ Len(Arrived(Len(pageLog))) < target_count) =>
              Len(requests) = avail

\* C6 witness: three pages available, cap 3, target out of reach: 3 calls.
C6_Witness ==
    /\ Done /\ avail = 3 /\ max_pages = 3 /\ Len(requests) = 3
    /\ Len(all_videos) < target_count

\* C7: all_videos is at every point the concatenation, in arrival order,
\* of the records of the non-empty pages received; the result holds that
\* sequence and its length as total_fetched.
C7_RecordsAreConcatenation ==
    /\ all_videos = Arrived(Len(pageLog))
    /\ Returned =>
          /\ result[1].videos = Arrived(Len(pageLog))
          /\ result[1].total_fetched = Len(result[1].videos)

\* C7 witness: two pages with the same records, followed by a page of
\* smaller ids: the result holds every record, repeated and unsorted.
C7_Witness ==
    /\ Returned /\ Len(pageLog) = 3
    /\ pageLog[1] = pageLog[2]
    /\ pageLog[1][1].videos[1] = 2
    /\ pageLog[3] # None /\ Len(pageLog[3][1].videos) = PER_CALL_MAX
    /\ pageLog[3][1].videos[1] = 1
    /\ result[1].total_fetched = 3 * PER_CALL_MAX

\* C8: every envelope _make_request returns with success = false carries
\* a non-null error string.
C8_FailureHasError ==
    (response # None /\ ~response[1].success) => response[1].error # None

\* C9: whenever the HTTP call received a response, the envelope's
\* status_code is the status of that response; it is null only when no
\* response was received.
C9_StatusCodeIsStatusReceived ==
    (http # None /\ response # None) =>
        /\ http[1].kind = "response" =>
              response[1].status_code = Some(http[1].status)
        /\ response[1].status_code = None => http[1].kind = "error"

\* C10: _make_request never raises: every HTTP outcome yields an envelope;
\* on a transport failure the envelope is success = false, error
\* "Request failed: ...", status_code null, and no second request is sent.
C10_NeverRaises ==
    /\ pc # "raised"
    /\ http # None => response # None
    /\ Len(requests) = Len(pageLog) + (IF pc = "await" THEN 1 ELSE 0)
    /\ (http # None /\ http[1].kind = "error") =>
          /\ ~response[1].success
          /\ response[1].error # None
          /\ response[1].error[1].prefix = "Request failed: "
          /\ response[1].status_code = None
          /\ pc \in {"return", "done"}

\* C10 witness: the second page call ends in a transport failure and the
\* fetch returns the first page.
C10_Witness ==
    /\ Returned /\ Len(requests) = 2
    /\ http = Some(TransportError)
    /\ response # None /\ ~response[1].success

\* C11: every page request sent upstream carries a count of at most 20: a
\* lone get_hashtag_posts_page sends 20 for any count above 20 and the
\* caller's count otherwise, and sends its request whatever the count;
\* the i-th request of a fetch asks for min(20, target_count - collected),
\* which lies between 1 and 20.
C11_CountAtMostPerCallMax ==
    /\ \A i \in 1..Len(requests) : requests[i].count <= PER_CALL_MAX
    /\ asked # None =>
          /\ pc \in {"page_await", "page_done"}
          /\ Len(requests) = 1
          /\ requests[1].cursor = asked[1].cursor
          /\ requests[1].count =
                (IF asked[1].count > PER_CALL_MAX THEN PER_CALL_MAX
                 ELSE asked[1].count)
    /\ asked = None =>
          \A i \in 1..Len(requests) :
              /\ requests[i].count =
                    Min(PER_CALL_MAX, target_count - Len(Arrived(i - 1)))
              /\ requests[i].count \in 1..PER_CALL_MAX

\* C11 witness: a lone page call asked for more than 20 videos was sent
\* with a count of 20 and returned a page.
C11_Witness ==
    /\ pc = "page_done" /\ asked # None
    /\ asked[1].count = MaxTarget
    /\ requests[1].count = PER_CALL_MAX
    /\ page_result # None

\* the envelope or its payload is one that yields no record: success =
\* false, data missing or empty, provider fields incomplete, result code
\* not 0, inner payload null or not of the expected shape
NoRecordIn(envelope, shapes) ==
    \/ ~envelope.success
    \/ envelope.data.t # "dict"
    \/ envelope.data = EmptyDict
    \/ envelope.data.payload.k # "full"
    \/ envelope.data.payload.code # 0
    \/ envelope.data.payload.data.d \notin shapes

\* C12: get_hashtag_posts_page and get_hashtag_info never raise; they
\* return absent whenever the envelope has success = false, its data is
\* missing or empty, the result code is not 0, or the inner payload is
\* missing or does not decode; they return a record only when the envelope
\* is successful, the code is 0 and the payload decodes, and the record is
\* then the decoded payload.
C12_AbsentUnlessDecoded ==
    /\ pc # "raised" /\ info_pc # "raised"
    /\ pc = "page_done" =>
          /\ page_result = None <=> NoRecordIn(response[1], {"page", "emptyobj"})
          /\ page_result # None =>
                LET d == response[1].data.payload.data IN
                page_result[1] = PaginatedResult(d.videos, d.cursor, d.hasMore)
    /\ info_pc = "done" =>
          /\ info_result = None <=> NoRecordIn(MakeRequest(info_http[1]).val, {"info"})
          /\ info_result # None => info_result[1] = HashtagInfo

\* C12 witness: a successful envelope whose payload holds a page under a
\* result code that is not 0, and the page call returned absent.
C12_Witness ==
    /\ pc = "page_done"
    /\ response[1].success
    /\ response[1].data.payload.code # 0
    /\ response[1].data.payload.data.d = "page"
    /\ response[1].data.payload.data.videos # <<>>
    /\ page_result = None

\* the connections gateway g created, how often connection c was closed,
\* the requests g sent, and whether g's request is in flight
ConnsOf(g) == { c \in 1..Len(gw.owner) : gw.owner[c] = g }
TimesClosed(c) == Cardinality({ i \in 1..Len(gw.closes) : gw.closes[i].conn = c })
Sent(g) == IF g = "posts" THEN Len(requests) ELSE info_sent
InFlight(g) == IF g = "posts" THEN pc = "await" ELSE info_pc = "await"
ScopeLeft(g) == tool_pc[g] \in {"done", "cancelled"}

\* C13: a gateway creates its connection on its first request and no
\* other afterwards (at most one live connection per gateway); no
\* connection is ever closed twice; once the scope of a gateway is left,
\* by a normal return, a "not found" return or a raised error, every
\* connection it created has been closed exactly once and the gateway
\* holds none, further releases included.
C13_ClosedExactlyOnce ==
    \A g \in Gateways :
        /\ (ConnsOf(g) = {}) = (Sent(g) = 0)
        /\ Cardinality(ConnsOf(g)) <= 1
        /\ Cardinality({ c \in ConnsOf(g) : TimesClosed(c) = 0 }) <= 1
        /\ \A c \in ConnsOf(g) : TimesClosed(c) <= 1
        /\ gw.client[g] # 0 => (gw.client[g] \in ConnsOf(g) /\ TimesClosed(gw.client[g]) = 0)
        /\ tool_pc[g] = "scope" => \A c \in ConnsOf(g) : TimesClosed(c) = 0
        /\ ScopeLeft(g) =>
              /\ gw.client[g] = 0
              /\ \A c \in ConnsOf(g) : TimesClosed(c) = 1

\* C13 witness: the posts tool left its scope on a raised error after two
\* requests, the search tool on "not found", and each connection was
\* closed once.
C13_Witness ==
    /\ tool_pc["posts"] = "cancelled" /\ Len(requests) = 2
    /\ tool_pc["search"] = "done" /\ tool_result["search"] = Some(NotFound)
    /\ Len(gw.owner) = 2 /\ Len(gw.closes) = 2
    /\ TimesClosed(1) = 1 /\ TimesClosed(2) = 1

\* C14: with RAPIDAPI_KEY absent or empty, a tool that was called has
\* returned the configuration error, no gateway was created and no request
\* was sent.
C14_NoKeyNoNetwork ==
    api_key \in {ABSENT, ""} =>
        /\ gw = NoGateways
        /\ requests = <<>> /\ info_sent = 0
        /\ \A g \in Gateways :
              /\ tool_pc[g] \in {"idle", "done"}
              /\ tool_pc[g] = "done" =>
                    /\ tool_result[g] = Some(ConfigError)
                    /\ ~tool_result[g][1].success

\* C14 witness: the key is the empty string and both tools returned the
\* configuration error.
C14_Witness ==
    /\ api_key = ""
    /\ \A g \in Gateways : tool_pc[g] = "done" /\ tool_result[g] = Some(ConfigError)

\* C15: a returned result holds at least target_count videos.
C15_AtLeastTarget ==
    Returned => Len(result[1].videos) >= target_count

\* the last page call that came back with a page (and so with a cursor)
LastPresent ==
    CHOOSE i \in 1..Len(pageLog) :
        pageLog[i] # None /\ \A j \in (i + 1)..Len(pageLog) : pageLog[j] = None
\* the last page call that came back with records
LastMerged ==
    CHOOSE i \in 1..Len(pageLog) :
        ~LogEmpty(i) /\ \A j \in (i + 1)..Len(pageLog) : LogEmpty(j)

\* C16 (as stated): the cursor of a returned result is the cursor returned
\* by the last page call of the fetch, a final page of zero records
\* included.
C16_CursorOfLastPageCall ==
    Returned => result[1].cursor = pageLog[LastPresent][1].cursor

\* C16 (amended): the cursor of a returned result is the cursor returned
\* by the last page that held records; a final page that is absent or
\* holds zero records leaves the cursor of the page before it.
C16_CursorOfLastMergedPage ==
    Returned => result[1].cursor = pageLog[LastMerged][1].cursor

\* C16 witness: the fetch ends on a page of zero records whose cursor
\* differs from the one returned.
C16_Witness ==
    /\ Returned /\ Len(pageLog) = 3
    /\ pageLog[3] # None /\ pageLog[3][1].videos = <<>>
    /\ pageLog[1][1].cursor # pageLog[2][1].cursor
    /\ pageLog[3][1].cursor # pageLog[2][1].cursor
    /\ result[1].cursor = pageLog[2][1].cursor

\* C17: at most one page request of a fetch is in flight; the first
\* request carries cursor 0 and the n-th (n > 1) is sent after page n-1
\* was received and carries the cursor of that page; each gateway holds
\* and closes only the connection it created, so that the connection of a
\* gateway with a request in flight is open whatever the other does.
C17_SequentialCursorChain ==
    /\ Len(requests) - Len(pageLog) \in {0, 1}
    /\ (Len(requests) = Len(pageLog) + 1) = (pc \in {"await", "cancelled"})
    /\ Len(requests) > 0 => requests[1].cursor = 0
    /\ \A n \in 2..Len(requests) :
          /\ pageLog[n - 1] # None
          /\ requests[n].cursor = pageLog[n - 1][1].cursor
    /\ \A i \in 1..Len(gw.closes) : gw.owner[gw.closes[i].conn] = gw.closes[i].by
    /\ \A g \in Gateways :
          /\ gw.client[g] # 0 => gw.owner[gw.client[g]] = g
          /\ InFlight(g) => (gw.client[g] # 0 /\ TimesClosed(gw.client[g]) = 0)

\* C17 witness: the second page request is in flight with the cursor of
\* the first page, after the search tool has released its gateway.
C17_Witness ==
    /\ pc = "await" /\ Len(requests) = 2
    /\ requests[2].cursor = MaxCursor
    /\ tool_pc["search"] = "done" /\ Len(gw.closes) = 1
    /\ gw.client["posts"] # 0 /\ TimesClosed(gw.client["posts"]) = 0

\* C18: the fetch terminates: once get_hashtag_posts is called, it
\* returns (a result or absent), whatever the remote API answers.
C18_Terminates == (pc = "loop") ~> (pc = "done")

\* C18 witness: the remote API reported has_more = true on every page, the
\* target was never reached, and the fetch returned at the page cap.
C18_Witness ==
    /\ Done /\ max_pages = MaxPagesCap /\ Len(requests) = MaxPagesCap
    /\ Len(all_videos) < target_count
    /\ \A i \in 1..Len(pageLog) : pageLog[i] # None /\ pageLog[i][1].has_more

\* C19: no two entries of state["tasks"] have the same id, after any
\* sequence of task_manager calls, lists that name an id twice included.
C19_UniqueIds ==
    \A i, j \in 1..Len(state_tasks) :
        i # j => TaskId(state_tasks[i]) # TaskId(state_tasks[j])

\* C20: a call of task_manager that returns success = false, and a GET
\* call, leave state["tasks"] and every task in it as they were (content,
\* status, priority and updated_at).
C20_FailureLeavesState ==
    [][(~task_result'.success \/ task_result'.mode = "get")
          => state_tasks' = Age(state_tasks)]_vars

====
